---- MODULE Spec2Model ----
(***************************************************************************)
(* Verification model of the puzzle solutions of this repository.  Every   *)
(* solution is an independent program; each has its own variable(s) and    *)
(* its own specification, and the variables of the other programs stay Off.*)
(*                                                                         *)
(* 2022 day08 (tree-height grid, src/2022/src/bin/day08.rs):               *)
(* Spec    models main(): an input text is parsed, then part1 and part2    *)
(*         run on the parsed array.                                        *)
(* SpecFn  models part1 / part2 / see_trees as functions of an arbitrary   *)
(*         ArrayView2<u8> (any shape, also shapes parse_input never        *)
(*         produces).                                                      *)
(* SpecPar models part1 and part2 with every task of their par_azip! loops *)
(*         as steps of its own, taken in any order.                        *)
(* The specifications of the other programs are introduced with them.      *)
(***************************************************************************)
EXTENDS Integers, Sequences, FiniteSets, TLC

\* 2022 day08
VARIABLES input, pc, map, err, seeable, count, dist, score, best

\* one variable per other program: 2022 day12, day11, day10, day05, day07,
\* day06, 2023 day05, 2023 day06
VARIABLES hill, troop, mc, crane, sh, tuner, almanac, race

\* 2022 day08 again, with the tasks of its par_azip! loops as single steps
VARIABLES par

day08 == <<input, pc, map, err, seeable, count, dist, score, best>>

vars == <<day08, hill, troop, mc, crane, sh, tuner, almanac, race, par>>

\* the value of the variable of a program that is not running
Off == "off"

\* in an initial state: every program other than prog is not running
\* (the day08 variables are set by Day08Off, defined with main)
OthersOff(prog) ==
    /\ IF prog = "hill" THEN TRUE ELSE hill = Off
    /\ IF prog = "troop" THEN TRUE ELSE troop = Off
    /\ IF prog = "mc" THEN TRUE ELSE mc = Off
    /\ IF prog = "crane" THEN TRUE ELSE crane = Off
    /\ IF prog = "sh" THEN TRUE ELSE sh = Off
    /\ IF prog = "tuner" THEN TRUE ELSE tuner = Off
    /\ IF prog = "almanac" THEN TRUE ELSE almanac = Off
    /\ IF prog = "race" THEN TRUE ELSE race = Off
    /\ IF prog = "par" THEN TRUE ELSE par = Off

\* in a step of prog: the variables of every other program keep their values
OthersUnchanged(prog) ==
    /\ IF prog = "day08" THEN TRUE ELSE UNCHANGED day08
    /\ IF prog = "hill" THEN TRUE ELSE UNCHANGED hill
    /\ IF prog = "troop" THEN TRUE ELSE UNCHANGED troop
    /\ IF prog = "mc" THEN TRUE ELSE UNCHANGED mc
    /\ IF prog = "crane" THEN TRUE ELSE UNCHANGED crane
    /\ IF prog = "sh" THEN TRUE ELSE UNCHANGED sh
    /\ IF prog = "tuner" THEN TRUE ELSE UNCHANGED tuner
    /\ IF prog = "almanac" THEN TRUE ELSE UNCHANGED almanac
    /\ IF prog = "race" THEN TRUE ELSE UNCHANGED race
    /\ IF prog = "par" THEN TRUE ELSE UNCHANGED par

----------------------------------------------------------------------------
(* Bounds *)

\* longest input text, in characters (newlines included)
MaxInput == 6
\* largest array shape drawn for the function-level specification
MaxRows == 3
MaxCols == 3
\* largest number of elements of such an array
MaxCells == 9
\* largest height drawn for the function-level specification
MaxHeight == 1
\* 2022 day12: largest square height drawn for the small hill maps
MaxHillHeight == 2
\* 2022 day11: most items the first monkey starts with, their largest worry
\* level, and the number of rounds played
MaxItems == 2
MaxWorry == 3
MaxRounds == 1
\* 2022 day10: the longest program and the number of calls of step
MaxProg == 3
MaxSteps == 7
\* 2022 day05: the largest amount of a freely chosen move and the longest
\* list of freely chosen moves
MaxAmount == 2
MaxMoves == 2
\* 2022 day07: the longest freely chosen command log
MaxLog == 5
\* 2022 day06: the longest freely chosen buffer, its largest byte and the
\* largest freely chosen window
MaxLen == 5
MaxByte == 3
MaxWindow == 4
\* 2023 day05: the most range lines of a freely chosen map, their largest
\* src_start and their largest len
MaxRanges == 2
MaxStart == 2
MaxRangeLen == 2
\* 2023 day06: the longest freely chosen race and its largest record
MaxTime == 8
MaxDist == 17

\* the characters input texts are made of: two digits, a non-digit, a newline
Chars == {"1", "5", "x", "\n"}

\* the texts of exactly n characters
TextsOfLen(n) == [1 .. n -> Chars]


----------------------------------------------------------------------------
(* Values *)

Dirs == {"Up", "Down", "Left", "Right"}

None == [some |-> FALSE]
Some(v) == [some |-> TRUE, val |-> v]

Ok(v) == [ok |-> TRUE, val |-> v]
Err(e) == [ok |-> FALSE, err |-> e]

\* the index set of an array of shape <<r, c>>
Indices(dim) == (0 .. dim[1] - 1) \X (0 .. dim[2] - 1)

\* an Array2 / ArrayView2: its shape and its elements by (row, column)
Array(dim, f) == [dim |-> dim, at |-> f]

from_elem(dim, v) == Array(dim, [p \in Indices(dim) |-> v])

EmptyArray == from_elem(<<0, 0>>, 0)

\* ndarray's invert_axis(Axis(0)): the same elements with the rows reversed
invert_axis0(a) ==
    Array(a.dim, [p \in Indices(a.dim) |-> a.at[<<a.dim[1] - 1 - p[1], p[2]>>]])

\* ndarray's swap_axes(0, 1): the transposed view
swap_axes(a) ==
    LET d == <<a.dim[2], a.dim[1]>>
    IN  Array(d, [p \in Indices(d) |-> a.at[<<p[2], p[1]>>]])

----------------------------------------------------------------------------
(* parse_input *)

\* str::lines(): split at every "\n"; a final newline ends the last line
\* and adds no empty line after it
RECURSIVE lines(_)
lines(s) ==
    IF s = <<>> THEN <<>>
    ELSE LET nls == {i \in 1 .. Len(s) : s[i] = "\n"}
         IN  IF nls = {} THEN <<s>>
             ELSE LET nl == CHOOSE i \in nls : \A k \in nls : i <= k
                  IN  <<SubSeq(s, 1, nl - 1)>> \o lines(SubSeq(s, nl + 1, Len(s)))

\* u8::from_str of a one-character string
IsDigit(ch) == ch \in {"0", "1", "2", "3", "4", "5", "6", "7", "8", "9"}

DigitValue(ch) ==
    CASE ch = "0" -> 0 [] ch = "1" -> 1 [] ch = "2" -> 2 [] ch = "3" -> 3
      [] ch = "4" -> 4 [] ch = "5" -> 5 [] ch = "6" -> 6 [] ch = "7" -> 7
      [] ch = "8" -> 8 [] ch = "9" -> 9

\* flat_map over the lines: the characters of all lines, in order
RECURSIVE flat_map(_)
flat_map(ls) == IF ls = <<>> THEN <<>> ELSE Head(ls) \o flat_map(Tail(ls))

\* Array2::from_shape_vec(shape, v): row-major, fails unless the vector has
\* exactly rows * cols elements
from_shape_vec(dim, v) ==
    IF Len(v) # dim[1] * dim[2] THEN Err("weird shape")
    ELSE Ok(Array(dim, [p \in Indices(dim) |-> v[p[1] * dim[2] + p[2] + 1]]))

parse_input(s) ==
    LET ls == lines(s)
    IN  IF ls = <<>> THEN Err("No lines")
        ELSE LET len == Len(ls[1])
                 chs == flat_map(ls)
             IN  IF \E i \in 1 .. Len(chs) : ~IsDigit(chs[i]) THEN Err("invalid digit")
                 ELSE from_shape_vec(<<len, len>>, [i \in 1 .. Len(chs) |-> DigitValue(chs[i])])

----------------------------------------------------------------------------
(* part1: the running-maximum sweeps *)

\* the body of the par_azip! of seeable_from_up, per column:
\* *s = h > m
\* variant: a tree as tall as the running maximum counts as seeable
seeable_cell_ge(h, m) == h >= m

seeable_cell(h, m) == h > m

\* *m = u8::max(*m, *h)
\* variant: the accumulator keeps the last height instead of the maximum
u8_max_last(m, h) == h

u8_max(m, h) == IF h > m THEN h ELSE m

\* seeable.fill(v) on the view of row i of the output
\* variant: the first row is never filled
fill_row_skip(sb, i, v) == sb

fill_row(sb, i, v) == [p \in DOMAIN sb |-> IF p[1] = i THEN v ELSE sb[p]]

\* the loop of seeable_from_up over rows i, i+1, ...: max_height is the
\* Option<Array1<u8>> of column maxima, sb the Array2<bool> built so far
RECURSIVE seeable_rows(_, _, _, _)
seeable_rows(m, i, max_height, sb) ==
    IF i >= m.dim[1] THEN sb
    ELSE IF ~max_height.some
         THEN seeable_rows(m, i + 1,
                  Some([j \in 0 .. m.dim[2] - 1 |-> m.at[<<i, j>>]]),
                  fill_row(sb, i, TRUE))
         ELSE seeable_rows(m, i + 1,
                  Some([j \in 0 .. m.dim[2] - 1 |-> u8_max(max_height.val[j], m.at[<<i, j>>])]),
                  [p \in DOMAIN sb |->
                      IF p[1] = i THEN seeable_cell(m.at[p], max_height.val[p[2]])
                      ELSE sb[p]])

seeable_from_up(m) ==
    Array(m.dim, seeable_rows(m, 0, None, from_elem(m.dim, FALSE).at))

\* variant: the sweeps from the left and from the right change places
sweeps_sides_exchanged(m) ==
    [up    |-> seeable_from_up(m),
     down  |-> invert_axis0(seeable_from_up(invert_axis0(m))),
     left  |-> swap_axes(invert_axis0(seeable_from_up(invert_axis0(swap_axes(m))))),
     right |-> swap_axes(seeable_from_up(swap_axes(m)))]

\* the four sweeps of part1, each turned back to the orientation of the map
sweeps(m) ==
    [up    |-> seeable_from_up(m),
     down  |-> invert_axis0(seeable_from_up(invert_axis0(m))),
     left  |-> swap_axes(seeable_from_up(swap_axes(m))),
     right |-> swap_axes(invert_axis0(seeable_from_up(invert_axis0(swap_axes(m)))))]

\* par_azip!((a in &mut up, b in &down, c in &left, d in &right) *a |= b | c | d)
merged(s) ==
    [p \in DOMAIN s.up.at |-> s.up.at[p] \/ s.down.at[p] \/ s.left.at[p] \/ s.right.at[p]]

\* up.iter().filter(|e| **e).count()
count_true(a) == Cardinality({p \in DOMAIN a : a[p]})

part1(m) == count_true(merged(sweeps(m)))

----------------------------------------------------------------------------
(* part2: the ray cast *)

\* Dir::apply: one step from pos, None when it leaves the map
apply(dir, pos, m) ==
    IF (dir = "Up" /\ pos[1] = 0) \/ (dir = "Left" /\ pos[2] = 0) THEN None
    ELSE LET np == CASE dir = "Up"    -> <<pos[1] - 1, pos[2]>>
                     [] dir = "Down"  -> <<pos[1] + 1, pos[2]>>
                     [] dir = "Left"  -> <<pos[1], pos[2] - 1>>
                     [] dir = "Right" -> <<pos[1], pos[2] + 1>>
         IN  IF np \in Indices(m.dim) THEN Some(np) ELSE None

\* the test that ends the loop of see_trees: map[pos] >= own_height
\* variant: only a strictly taller tree ends the loop
blocks_gt(h, own_height) == h > own_height

\* variant: only a tree of exactly the same height ends the loop
blocks_eq(h, own_height) == h = own_height

blocks(h, own_height) == h >= own_height

\* variant: the tree that ends the loop is not counted
RECURSIVE see_loop_excl(_, _, _, _, _)
see_loop_excl(m, pos, dir, own_height, can_see) ==
    LET np == apply(dir, pos, m)
    IN  IF ~np.some THEN can_see
        ELSE IF blocks(m.at[np.val], own_height) THEN can_see
        ELSE see_loop_excl(m, np.val, dir, own_height, can_see + 1)

\* the loop of see_trees
RECURSIVE see_loop(_, _, _, _, _)
see_loop(m, pos, dir, own_height, can_see) ==
    LET np == apply(dir, pos, m)
    IN  IF ~np.some THEN can_see
        ELSE IF blocks(m.at[np.val], own_height) THEN can_see + 1
        ELSE see_loop(m, np.val, dir, own_height, can_see + 1)

\* variant: the count starts at 1, the starting tree included
see_trees_from_one(m, pos, dir) == see_loop(m, pos, dir, m.at[pos], 1)

see_trees(m, pos, dir) == see_loop(m, pos, dir, m.at[pos], 0)

\* the four values see_trees returns for every element
distances(heights) ==
    [p \in Indices(heights.dim) |-> [d \in Dirs |-> see_trees(heights, p, d)]]

\* variant: the factor of Dir::Right is left out
scores_no_right(ds) ==
    [p \in DOMAIN ds |-> 1 * ds[p]["Up"] * ds[p]["Down"] * ds[p]["Left"]]

\* the score array after the par_azip! of part2: 1, times the four distances
scores(ds) ==
    [p \in DOMAIN ds |-> 1 * ds[p]["Up"] * ds[p]["Down"] * ds[p]["Left"] * ds[p]["Right"]]

\* variant: an empty score array gives 0 instead of an error
iter_max_or_default(sc) ==
    IF DOMAIN sc = {} THEN Ok(0)
    ELSE Ok(CHOOSE v \in {sc[p] : p \in DOMAIN sc} : \A q \in DOMAIN sc : sc[q] <= v)

\* score.iter().max().copied().context("No elements")
iter_max(sc) ==
    IF DOMAIN sc = {} THEN Err("No elements")
    ELSE Ok(CHOOSE v \in {sc[p] : p \in DOMAIN sc} : \A q \in DOMAIN sc : sc[q] <= v)

part2(heights) == iter_max(scores(distances(heights)))

----------------------------------------------------------------------------
(* main *)

\* the arrays the function-level specification draws
Shapes == {d \in (0 .. MaxRows) \X (0 .. MaxCols) : d[1] * d[2] <= MaxCells}

ArraysOfShape(d) == {Array(d, f) : f \in [Indices(d) -> 0 .. MaxHeight]}

\* the 5x5 example grid 30373 / 25512 / 65332 / 33549 / 35390
ExampleRows ==
    << <<3, 0, 3, 7, 3>>, <<2, 5, 5, 1, 2>>, <<6, 5, 3, 3, 2>>,
       <<3, 3, 5, 4, 9>>, <<3, 5, 3, 9, 0>> >>

Example == Array(<<5, 5>>, [p \in Indices(<<5, 5>>) |-> ExampleRows[p[1] + 1][p[2] + 1]])

\* the example grid with the digit at q replaced by h
ExampleWith(q, h) == Array(Example.dim, [p \in Indices(Example.dim) |-> IF p = q THEN h ELSE Example.at[p]])

Digits == 0 .. 9

Unset ==
    /\ err = ""
    /\ seeable = sweeps(EmptyArray)
    /\ count = 0
    /\ dist = <<>>
    /\ score = <<>>
    /\ best = Err("")

\* main() before it reads its input
Init ==
    /\ \E n \in 0 .. MaxInput : input \in TextsOfLen(n)
    /\ pc = "start"
    /\ map = EmptyArray
    /\ Unset
    /\ OthersOff("day08")

\* part1 / part2 called on an array view of any shape
InitFn ==
    /\ input = <<>>
    /\ pc = "parsed"
    /\ \/ \E d \in Shapes : map \in ArraysOfShape(d)
       \/ \E q \in Indices(Example.dim), h \in Digits : map = ExampleWith(q, h)
    /\ Unset
    /\ OthersOff("day08")

\* the day08 variables while another program runs
Day08Off ==
    /\ input = <<>>
    /\ pc = Off
    /\ map = EmptyArray
    /\ Unset

\* let input = parse_input(&input)?;
Parse ==
    /\ pc = "start"
    /\ LET r == parse_input(input)
       IN  IF r.ok
           THEN /\ map' = r.val
                /\ err' = ""
                /\ pc' = "parsed"
           ELSE /\ map' = map
                /\ err' = r.err
                /\ pc' = "parse_failed"
    /\ UNCHANGED <<input, seeable, count, dist, score, best>>
    /\ OthersUnchanged("day08")

\* let part1 = part1(input.view());
Part1 ==
    /\ pc = "parsed"
    /\ seeable' = sweeps(map)
    /\ count' = part1(map)
    /\ pc' = "part1"
    /\ UNCHANGED <<input, map, err, dist, score, best>>
    /\ OthersUnchanged("day08")

\* let part2 = part2(input.view())?;
Part2 ==
    /\ pc = "part1"
    /\ dist' = distances(map)
    /\ score' = scores(dist')
    /\ best' = part2(map)
    /\ IF best'.ok
       THEN pc' = "done" /\ err' = err
       ELSE pc' = "part2_failed" /\ err' = best'.err
    /\ UNCHANGED <<input, map, seeable, count>>
    /\ OthersUnchanged("day08")

Next == Parse \/ Part1 \/ Part2

NextFn == Part1 \/ Part2

Spec == Init /\ [][Next]_vars

SpecFn == InitFn /\ [][NextFn]_vars

----------------------------------------------------------------------------
(* Vocabulary of the properties *)

\* part1 has returned
Part1Ran == pc \in {"part1", "done", "part2_failed"}

\* part2 has returned
Part2Ran == pc \in {"done", "part2_failed"}

Cells == Indices(map.dim)

\* the cell k steps from p in direction d
StepFrom(p, d, k) ==
    CASE d = "Up"    -> <<p[1] - k, p[2]>>
      [] d = "Down"  -> <<p[1] + k, p[2]>>
      [] d = "Left"  -> <<p[1], p[2] - k>>
      [] d = "Right" -> <<p[1], p[2] + k>>

\* the number of cells between p and the edge of the grid in direction d
EdgeDistance(p, d) ==
    CASE d = "Up"    -> p[1]
      [] d = "Down"  -> map.dim[1] - 1 - p[1]
      [] d = "Left"  -> p[2]
      [] d = "Right" -> map.dim[2] - 1 - p[2]

\* the height of the cell k steps from p
HeightAt(p, d, k) == map.at[StepFrom(p, d, k)]

\* every cell between p and the edge in direction d is strictly lower than p
VisibleFrom(p, d) == \A k \in 1 .. EdgeDistance(p, d) : HeightAt(p, d, k) < map.at[p]

\* the steps at which the ray from p meets a cell at least as high as p
Blockers(p, d) == {k \in 1 .. EdgeDistance(p, d) : HeightAt(p, d, k) >= map.at[p]}

\* steps taken up to and including the first blocker, or up to the edge
StepsToBlocker(p, d) ==
    IF Blockers(p, d) = {} THEN EdgeDistance(p, d)
    ELSE CHOOSE k \in Blockers(p, d) : \A j \in Blockers(p, d) : k <= j

\* the strictly lower cells the ray passes before its first blocker or the edge
LowerRun(p, d) ==
    {k \in 1 .. EdgeDistance(p, d) : \A j \in 1 .. k : HeightAt(p, d, j) < map.at[p]}

OnBoundary(p) ==
    p[1] = 0 \/ p[1] = map.dim[1] - 1 \/ p[2] = 0 \/ p[2] = map.dim[2] - 1

Product(p) ==
    StepsToBlocker(p, "Up") * StepsToBlocker(p, "Down")
        * StepsToBlocker(p, "Left") * StepsToBlocker(p, "Right")

----------------------------------------------------------------------------
(* Properties of part1, see_trees and part2 on arbitrary arrays (SpecFn) *)

\* C1: part1 returns the number of cells that have a direction in which every
\* cell between them and the edge is strictly lower; boundary cells count.
C1_CountVisible ==
    Part1Ran =>
        count = Cardinality({p \in Cells : \E d \in Dirs : VisibleFrom(p, d)})

\* a 3x3 grid whose centre is hidden from all four sides
C1_Witness ==
    /\ Part1Ran
    /\ map.dim = <<3, 3>>
    /\ count = 8

\* C2: see_trees counts the cells stepped over from one step away, up to the
\* grid boundary or up to and including the first cell at least as high as
\* the start; it is 0 when the first step leaves the grid.
C2_SeeTrees ==
    Part2Ran =>
        \A p \in Cells : \A d \in Dirs :
            /\ dist[p][d] = StepsToBlocker(p, d)
            /\ EdgeDistance(p, d) = 0 => dist[p][d] = 0

\* a ray that passes one lower cell, is stopped by the second cell and
\* has a third cell behind it
C2_Witness ==
    /\ Part2Ran
    /\ \E p \in Cells : \E d \in Dirs :
           /\ EdgeDistance(p, d) >= 3
           /\ HeightAt(p, d, 1) < map.at[p]
           /\ HeightAt(p, d, 2) >= map.at[p]
           /\ dist[p][d] = 2

\* C3: on a non-empty grid part2 returns the maximum over all cells of the
\* product of the four viewing distances.
C3_MaxScenic ==
    (Part2Ran /\ Cells # {}) =>
        /\ best.ok
        /\ \E p \in Cells : best.val = Product(p)
        /\ \A p \in Cells : Product(p) <= best.val

\* a grid whose best score is a product of unequal distances
C3_Witness ==
    /\ pc = "done"
    /\ best.val = 6
    /\ \E p \in Cells : dist[p]["Up"] = 1 /\ dist[p]["Right"] = 2 /\ score[p] = 6

\* C4: on the example grid part1 is 21 and part2 is 8, the 8 being the score
\* of the cell at row 3, column 2 with distances up 2, left 2, down 1, right 2.
C4_Example ==
    (map = Example) =>
        /\ Part1Ran => count = 21
        /\ pc # "part2_failed"
        /\ pc = "done" =>
              /\ best = Ok(8)
              /\ map.at[<<3, 2>>] = 5
              /\ score[<<3, 2>>] = 8
              /\ dist[<<3, 2>>] = [d \in Dirs |->
                     CASE d = "Up" -> 2 [] d = "Left" -> 2 [] d = "Down" -> 1 [] d = "Right" -> 2]

C4_Witness == map = Example /\ pc = "done"

\* C7: the scenic score part2 computes for a cell on the grid boundary is 0.
C7_BoundaryScoreZero ==
    Part2Ran => \A p \in Cells : OnBoundary(p) => score[p] = 0

\* a grid with an inner cell of non-zero score next to a boundary cell
C7_Witness ==
    /\ pc = "done"
    /\ map.dim = <<3, 3>>
    /\ score[<<1, 1>>] = 1
    /\ OnBoundary(<<0, 1>>) /\ score[<<0, 1>>] = 0

\* C8: with at least two rows and two columns part1 returns at least
\* 2*rows + 2*cols - 4, every boundary cell being marked by one of the sweeps.
C8_BoundaryVisible ==
    (Part1Ran /\ map.dim[1] >= 2 /\ map.dim[2] >= 2) =>
        /\ count >= 2 * map.dim[1] + 2 * map.dim[2] - 4
        /\ \A p \in Cells : OnBoundary(p) =>
               \/ seeable.up.at[p] \/ seeable.down.at[p]
               \/ seeable.left.at[p] \/ seeable.right.at[p]

\* a grid where the bound is met exactly: only the boundary is visible
C8_Witness ==
    /\ Part1Ran
    /\ map.dim = <<3, 3>>
    /\ count = 2 * map.dim[1] + 2 * map.dim[2] - 4
    /\ ~seeable.up.at[<<2, 1>>] /\ seeable.down.at[<<2, 1>>]

\* C9: part2 returns the error "No elements" when the grid has no cells, and
\* returns Ok for every grid with at least one cell.
C9_NoElements ==
    Part2Ran =>
        /\ Cells = {} => best = Err("No elements")
        /\ Cells # {} => best.ok

\* part2 has failed on an array with rows but no columns
C9_Witness ==
    /\ pc = "part2_failed"
    /\ map.dim[1] > 0
    /\ map.dim[2] = 0

\* C10 as stated: the viewing distance is the number of strictly lower cells
\* on the ray before the first blocker or the edge.
C10_Original ==
    Part2Ran =>
        \A p \in Cells : \A d \in Dirs : dist[p][d] = Cardinality(LowerRun(p, d))

\* C10 amended: the viewing distance is the number of strictly lower cells on
\* the ray before the first blocker or the edge, plus one for the blocker
\* when there is one.
C10_LowerRunPlusBlocker ==
    Part2Ran =>
        \A p \in Cells : \A d \in Dirs :
            dist[p][d] = Cardinality(LowerRun(p, d))
                            + (IF Blockers(p, d) # {} THEN 1 ELSE 0)

\* a ray stopped by its very first cell: no lower cell seen, distance 1
C10_Witness ==
    /\ Part2Ran
    /\ \E p \in Cells : \E d \in Dirs :
           /\ EdgeDistance(p, d) >= 2
           /\ LowerRun(p, d) = {}
           /\ dist[p][d] = 1

\* the map with the height of cell q replaced by h
Raised(q, h) == Array(map.dim, [p \in Cells |-> IF p = q THEN h ELSE map.at[p]])

\* C11: raising the height of a blocking cell on the ray of a cell, every
\* other cell kept, never increases what see_trees returns for that cell
\* and direction.
C11_Monotonic ==
    Part2Ran =>
        \A p \in Cells : \A d \in Dirs : \A k \in Blockers(p, d) :
            \A h \in Digits :
                h > HeightAt(p, d, k) =>
                    see_trees(Raised(StepFrom(p, d, k), h), p, d) <= dist[p][d]

\* a ray that passes a lower cell and ends at a blocker of the same height
\* as the start, which can still be raised
C11_Witness ==
    /\ Part2Ran
    /\ \E p \in Cells : \E d \in Dirs :
           /\ dist[p][d] = 2
           /\ 2 \in Blockers(p, d)
           /\ HeightAt(p, d, 2) = map.at[p]
           /\ \E h \in Digits : h > HeightAt(p, d, 2)

\* the array the sweep of part1 for direction d has produced
SweepFor(d) ==
    CASE d = "Up"    -> seeable.up
      [] d = "Down"  -> seeable.down
      [] d = "Left"  -> seeable.left
      [] d = "Right" -> seeable.right

\* C21: for every cell and direction, if see_trees returns a distance
\* smaller than the number of cells between the cell and the edge of the
\* grid in that direction, the sweep for that direction has marked the cell
\* as not visible.
C21_RaySubsumesSweep ==
    Part2Ran =>
        \A p \in Cells : \A d \in Dirs :
            dist[p][d] < EdgeDistance(p, d) => ~SweepFor(d).at[p]

\* a cell whose ray to the left stops one step away, two cells before the
\* edge, and which the sweep from the left has marked not visible while the
\* sweep from the right has marked it visible
C21_Witness ==
    /\ Part2Ran
    /\ \E p \in Cells :
           /\ EdgeDistance(p, "Left") = 2
           /\ dist[p]["Left"] = 1
           /\ ~seeable.left.at[p]
           /\ seeable.right.at[p]

----------------------------------------------------------------------------
(* Properties of main on input texts (Spec) *)

Text555 == <<"5", "5", "5">>

\* C5: the input text "555" gives a 1x3 grid, part1 is 3 and every scenic
\* score is 0.
C5_SingleRow ==
    (input = Text555 /\ pc # "start") =>
        /\ pc # "parse_failed"
        /\ map.dim = <<1, 3>>
        /\ Part1Ran => count = 3
        /\ Part2Ran => \A p \in Cells : score[p] = 0

\* the lines of the text do not all have the same length
Ragged(s) ==
    LET ls == lines(s)
    IN  \E i \in 1 .. Len(ls) : \E j \in 1 .. Len(ls) : Len(ls[i]) # Len(ls[j])

\* C6: parse_input fails for every input whose lines differ in length.
C6_RaggedFails ==
    (pc # "start" /\ Ragged(input)) => pc = "parse_failed"


----------------------------------------------------------------------------
(* 2022 day12 (hill climbing, src/2022/src/bin/day12.rs)                   *)
(* SpecHill models part1: the A* search of the pathfinding crate from      *)
(* start to end over neighbours(.., Dir::Up), one loop iteration per step. *)

\* u8::saturating_sub
saturating_sub(a, b) == IF a > b THEN a - b ELSE 0

\* variant: a step may climb two levels
climbable_two(new_height, current_height) == saturating_sub(new_height, current_height) <= 2

\* Dir::Up of neighbours: new_height.saturating_sub(current_height) <= 1
climbable(new_height, current_height) == saturating_sub(new_height, current_height) <= 1

\* neighbours(map, coord, Dir::Up): the cells one step down, up, right or
\* left of coord that lie in the map and are climbable
neighbours(heights, coord) ==
    {n \in {<<coord[1] + 1, coord[2]>>, <<coord[1] - 1, coord[2]>>,
            <<coord[1], coord[2] + 1>>, <<coord[1], coord[2] - 1>>} :
        /\ n \in Indices(heights.dim)
        /\ climbable(heights.at[n], heights.at[coord])}

\* num::integer::sqrt: the floor of the square root
sqrt(n) == CHOOSE r \in 0 .. n : r * r <= n /\ (r + 1) * (r + 1) > n

\* variant: the square root is left out
heuristic_squared(coord) == coord[1] * coord[1] + coord[2] * coord[2]

\* the heuristic closure of part1: |(x, y)| sqrt(x.pow(2) + y.pow(2))
heuristic(coord) == sqrt(coord[1] * coord[1] + coord[2] * coord[2])

\* the entries astar may pop next: BinaryHeap::pop gives an entry of least
\* estimated_cost; which one among equal estimates is left open here
poppable(to_see) == {e \in to_see : \A o \in to_see : e.estimated_cost <= o.estimated_cost}

\* the successors of a popped node that astar records and pushes: those not
\* yet in parents, or in parents with a greater cost
improved(h, node, cost) ==
    {n \in neighbours(h.heights, node) :
        n \notin DOMAIN h.parents \/ h.parents[n] > cost + 1}

\* a Map and the state of astar right after its start node is pushed
hill_start(heights, start, end) ==
    [heights |-> heights, start |-> start, end |-> end,
     to_see  |-> {[estimated_cost |-> 0, cost |-> 0, node |-> start]},
     parents |-> [n \in {start} |-> 0],
     result  |-> None,
     pc      |-> "search"]

\* the example of tests::example, 'a'..'z' as 0..25, S as 0 and E as 25
HillExampleRows ==
    << << 0,  0,  1, 16, 15, 14, 13, 12>>,
       << 0,  1,  2, 17, 24, 23, 23, 11>>,
       << 0,  2,  2, 18, 25, 25, 23, 10>>,
       << 0,  2,  2, 19, 20, 21, 22,  9>>,
       << 0,  1,  3,  4,  5,  6,  7,  8>> >>

HillExample ==
    hill_start(Array(<<5, 8>>, [p \in Indices(<<5, 8>>) |-> HillExampleRows[p[1] + 1][p[2] + 1]]),
               <<0, 0>>, <<2, 5>>)

\* small maps: two rows of three squares, any start and end
HillShape == <<2, 3>>

InitHill ==
    /\ Day08Off
    /\ OthersOff("hill")
    /\ \/ \E f \in [Indices(HillShape) -> 0 .. MaxHillHeight] :
          \E st \in Indices(HillShape), en \in Indices(HillShape) :
              hill = hill_start(Array(HillShape, f), st, en)
       \/ hill = HillExample

\* one iteration of the loop of astar: pop, test for success, skip a stale
\* entry, else record and push the improved successors
AstarStep ==
    /\ hill.pc = "search"
    /\ \E e \in poppable(hill.to_see) :
          LET rest == hill.to_see \ {e}
          IN  IF e.node = hill.end
              THEN hill' = [hill EXCEPT !.to_see = rest, !.result = Some(e.cost), !.pc = "found"]
              ELSE IF e.cost > hill.parents[e.node]
              THEN hill' = [hill EXCEPT !.to_see = rest]
              ELSE LET succ == improved(hill, e.node, e.cost)
                   IN  hill' = [hill EXCEPT
                           !.to_see = rest \cup
                               {[estimated_cost |-> e.cost + 1 + heuristic(n),
                                 cost |-> e.cost + 1, node |-> n] : n \in succ},
                           !.parents = [n \in DOMAIN hill.parents \cup succ |->
                                           IF n \in succ THEN e.cost + 1 ELSE hill.parents[n]]]
    /\ OthersUnchanged("hill")

\* the heap is empty: astar returns None and the unwrap of part1 panics
AstarNone ==
    /\ hill.pc = "search"
    /\ hill.to_see = {}
    /\ hill' = [hill EXCEPT !.pc = "panic"]
    /\ OthersUnchanged("hill")

NextHill == AstarStep \/ AstarNone

SpecHill == InitHill /\ [][NextHill]_vars

\* one step to a 4-neighbour at most one higher than the square left
HillStep(c, n) ==
    /\ (n[1] - c[1]) * (n[1] - c[1]) + (n[2] - c[2]) * (n[2] - c[2]) = 1
    /\ hill.heights.at[n] <= hill.heights.at[c] + 1

\* the squares within one step of a set of squares
Grow(seen) == seen \cup {n \in Indices(hill.heights.dim) : \E c \in seen : HillStep(c, n)}

\* the least k such that end is within k steps of seen, -1 if there is none
RECURSIVE StepsFrom(_, _, _)
StepsFrom(seen, next, k) ==
    IF hill.end \in seen THEN k
    ELSE IF next = seen THEN -1
    ELSE StepsFrom(next, Grow(next), k + 1)

\* the least number of steps of a path from start to end, -1 without a path
ShortestPath == StepsFrom({hill.start}, Grow({hill.start}), 0)

PathExists == ShortestPath >= 0

\* C12: part1 returns the least number of steps of a path from S to E whose
\* steps go to a 4-neighbour at most one higher; wherever such a path exists
\* the search does not end without one; on the example of the test it is 31.
C12_ShortestPath ==
    /\ hill.pc = "found" => hill.result = Some(ShortestPath)
    /\ hill.pc = "panic" => ~PathExists
    /\ (hill.pc = "found" /\ hill.heights = HillExample.heights
           /\ hill.start = HillExample.start /\ hill.end = HillExample.end)
       => hill.result = Some(31)

\* the search has returned a path that is longer than the straight-line
\* distance from start to end, so that it had to go around a cliff
C12_Witness ==
    /\ hill.pc = "found"
    /\ hill.heights.dim = HillShape
    /\ hill.start = <<0, 0>> /\ hill.end = <<0, 2>>
    /\ hill.result = Some(4)


----------------------------------------------------------------------------
(* 2022 day11 (monkeys passing items, src/src/bin/day11.rs)                *)
(* SpecTroop models round(): the monkeys in turn, one inspected item per   *)
(* step.                                                                   *)

Mul(x) == [kind |-> "Mul", x |-> x]
Add(x) == [kind |-> "Add", x |-> x]
Square == [kind |-> "Square"]

\* Operation::apply
op_apply(op, old) ==
    CASE op.kind = "Mul"    -> old * op.x
      [] op.kind = "Add"    -> old + op.x
      [] op.kind = "Square" -> old * old

Monkey(items, op, divides_by, on_true, on_false) ==
    [items |-> items, op |-> op, divides_by |-> divides_by,
     on_true_throw_to |-> on_true, on_false_throw_to |-> on_false,
     inspect_count |-> 0]

\* a Vec of monkeys, indexed from 0
MonkeyVec(seq) == [i \in 0 .. Len(seq) - 1 |-> seq[i + 1]]

\* find_mod: the product of all divides_by
RECURSIVE product_from(_, _)
product_from(monkeys, i) ==
    IF i \notin DOMAIN monkeys THEN 1
    ELSE monkeys[i].divides_by * product_from(monkeys, i + 1)

find_mod(monkeys) == product_from(monkeys, 0)

\* the item after inspection: the operation, the relief, the reduction
new_worry(monkey, item, relief, modulo) ==
    LET inspected == op_apply(monkey.op, item)
        relieved  == IF relief THEN inspected \div 3 ELSE inspected
    IN  relieved % modulo

\* variant: the two targets are exchanged
throw_to_swapped(monkey, item) ==
    IF item % monkey.divides_by = 0 THEN monkey.on_false_throw_to
    ELSE monkey.on_true_throw_to

\* the test of the thrown item
throw_to(monkey, item) ==
    IF item % monkey.divides_by = 0 THEN monkey.on_true_throw_to
    ELSE monkey.on_false_throw_to

\* the state of round() before the first turn of the first round
troop_start(monkeys, relief, rounds) ==
    [monkeys |-> monkeys, relief |-> relief, modulo |-> find_mod(monkeys),
     round |-> 1, last_round |-> rounds,
     idx |-> 0, items |-> <<>>, pc |-> "turn",
     before |-> monkeys, turns |-> <<>>]

\* tests::EXAMPLE
TroopExample ==
    MonkeyVec(<< Monkey(<<79, 98>>, Mul(19), 23, 2, 3),
                 Monkey(<<54, 65, 75, 74>>, Add(6), 19, 2, 0),
                 Monkey(<<79, 60, 97>>, Square, 13, 1, 3),
                 Monkey(<<74>>, Add(3), 17, 0, 1) >>)

\* the lists of at most n worry levels
WorryLists == UNION {[1 .. n -> 1 .. MaxWorry] : n \in 0 .. MaxItems}

\* three monkeys: the first with any operation, any items and any two
\* targets (itself and the index past the end included), the second with
\* any two other monkeys as targets
SmallTroop(items, op, t0, f0, t1, f1) ==
    MonkeyVec(<< Monkey(items, op, 2, t0, f0),
                 Monkey(<<4, 3>>, Mul(2), 3, t1, f1),
                 Monkey(<<>>, Square, 2, 0, 1) >>)

InitTroop ==
    /\ Day08Off
    /\ OthersOff("troop")
    /\ \/ \E items \in WorryLists, op \in {Add(1), Mul(2), Square}, relief \in BOOLEAN :
          \E t0 \in 0 .. 3, f0 \in 0 .. 3, t1 \in {0, 2}, f1 \in {0, 2} :
              troop = troop_start(SmallTroop(items, op, t0, f0, t1, f1), relief, MaxRounds)
       \/ troop = troop_start(TroopExample, TRUE, 20)

\* for monkey in monkeys: borrow_mut and mem::take(&mut monkey.items)
TakeItems ==
    /\ troop.pc = "turn"
    /\ troop' = [troop EXCEPT
           !.items = troop.monkeys[troop.idx].items,
           !.monkeys[troop.idx].items = <<>>,
           !.before = troop.monkeys,
           !.turns = Append(troop.turns, troop.idx),
           !.pc = "inspect"]
    /\ OthersUnchanged("troop")

\* one iteration of `for mut item in items`
Inspect ==
    /\ troop.pc = "inspect"
    /\ troop.items # <<>>
    /\ LET me     == troop.monkeys[troop.idx]
           item   == new_worry(me, Head(troop.items), troop.relief, troop.modulo)
           target == throw_to(me, item)
       IN  IF target = troop.idx \/ target \notin DOMAIN troop.monkeys
           THEN \* monkeys[throw_to].borrow_mut() of the borrowed monkey, or
                \* an index past the end: panic
                troop' = [troop EXCEPT
                    !.monkeys[troop.idx].inspect_count = @ + 1,
                    !.items = Tail(troop.items),
                    !.pc = "panic"]
           ELSE troop' = [troop EXCEPT
                    !.monkeys[troop.idx].inspect_count = @ + 1,
                    !.monkeys[target].items = Append(@, item),
                    !.items = Tail(troop.items)]
    /\ OthersUnchanged("troop")

\* the items are used up: the next monkey, or the end of the round
EndTurn ==
    /\ troop.pc = "inspect"
    /\ troop.items = <<>>
    /\ IF troop.idx + 1 \in DOMAIN troop.monkeys
       THEN troop' = [troop EXCEPT !.idx = @ + 1, !.pc = "turn"]
       ELSE troop' = [troop EXCEPT
                !.idx = 0, !.turns = <<>>,
                !.round = @ + 1,
                !.pc = IF troop.round = troop.last_round THEN "done" ELSE "turn"]
    /\ OthersUnchanged("troop")

NextTroop == TakeItems \/ Inspect \/ EndTurn

SpecTroop == InitTroop /\ [][NextTroop]_vars

\* a turn has ended: the monkey at idx has used up the items it took
TurnOver == troop.pc = "inspect" /\ troop.items = <<>>

\* what the monkey of this turn makes of an item, without the reduction
Relieved(x) ==
    LET me == troop.before[troop.idx]
        v  == op_apply(me.op, x)
    IN  IF troop.relief THEN v \div 3 ELSE v

\* ... and reduced modulo the product of all divisors
Reduced(x) == Relieved(x) % troop.modulo

\* the monkey that gets an item of the given new worry level
Target(v) ==
    LET me == troop.before[troop.idx]
    IN  IF v % me.divides_by = 0 THEN me.on_true_throw_to ELSE me.on_false_throw_to

\* the new worry levels, in list order, of the items of this turn that go to j
ThrownTo(j, new) ==
    LET held == troop.before[troop.idx].items
        Goes(v) == Target(v) = j
    IN  SelectSeq([k \in 1 .. Len(held) |-> IF new = "reduced" THEN Reduced(held[k]) ELSE Relieved(held[k])], Goes)

\* the claim about one turn, with either reading of the thrown value
TurnAsClaimed(new) ==
    /\ \A k \in 1 .. Len(troop.turns) : troop.turns[k] = k - 1
    /\ TurnOver =>
          \A j \in DOMAIN troop.monkeys :
              IF j = troop.idx
              THEN /\ troop.monkeys[j].items = <<>>
                   /\ troop.monkeys[j].inspect_count =
                          troop.before[j].inspect_count + Len(troop.before[j].items)
              ELSE /\ troop.monkeys[j].items = troop.before[j].items \o ThrownTo(j, new)
                   /\ troop.monkeys[j].inspect_count = troop.before[j].inspect_count

\* C13 as stated: the item appended is the result of the operation, divided
\* by 3 under relief.
C13_Original == TurnAsClaimed("relieved")

ItemsOf(monkeys) == [i \in DOMAIN monkeys |-> monkeys[i].items]

\* the assertions of tests::step_example
StepExample ==
    (troop.before[0].op = Mul(19) /\ troop.idx = 0 /\ troop.pc \in {"turn", "done"}) =>
        /\ troop.round = 2 =>
              ItemsOf(troop.monkeys) =
                  MonkeyVec(<< <<20, 23, 27, 26>>, <<2080, 25, 167, 207, 401, 1046>>, <<>>, <<>> >>)
        /\ troop.round = 3 =>
              ItemsOf(troop.monkeys) =
                  MonkeyVec(<< <<695, 10, 71, 135, 350>>, <<43, 49, 58, 55, 362>>, <<>>, <<>> >>)
        /\ troop.pc = "done" =>
              /\ ItemsOf(troop.monkeys) =
                     MonkeyVec(<< <<10, 12, 14, 26, 34>>, <<245, 93, 53, 199, 115>>, <<>>, <<>> >>)
              /\ [i \in DOMAIN troop.monkeys |-> troop.monkeys[i].inspect_count]
                     = MonkeyVec(<<101, 95, 7, 105>>)

\* C13 amended: monkeys take their turns in index order; in a turn that
\* completes, every item held at its start is inspected in list order, the
\* operation applied, divided by 3 under relief and reduced modulo the
\* product of all divides_by, and appended to the list of on_true_throw_to
\* or on_false_throw_to by divisibility; inspect_count grows by one per item
\* and the own list is empty afterwards.
C13_Round == TurnAsClaimed("reduced") /\ StepExample

\* the second monkey has ended a turn in which it inspected, after its own
\* two items, an item the first monkey threw to it in the same round, and
\* threw items to both of its targets
C13_Witness ==
    /\ TurnOver
    /\ troop.idx = 1
    /\ Len(troop.before[1].items) = 3
    /\ troop.monkeys[0].items # <<>>
    /\ troop.monkeys[2].items # <<>>

----------------------------------------------------------------------------
(* 2022 day10 (the register machine, src/src/bin/day10.rs)                 *)
(* SpecMc models a McMachine stepped as run_for and the tests step it.     *)

Nop == [kind |-> "Nop"]
AddX(val) == [kind |-> "AddX", val |-> val]

\* Default for McMachine, with the given instructions
with_instructions(instructions) ==
    [reg_x |-> 1, waiting |-> None, ip |-> 0, instructions |-> instructions]

\* step, an instruction is waiting: count down and complete it at zero
tick(m) ==
    LET to_wait == saturating_sub(m.waiting.val[1], 1)
        inst    == m.waiting.val[2]
    IN  IF to_wait > 0
        THEN [m |-> [m EXCEPT !.waiting = Some(<<to_wait, inst>>)], result |-> Ok(<<>>)]
        ELSE [m |-> [m EXCEPT !.reg_x = @ + inst.val, !.waiting = None, !.ip = @ + 1],
              result |-> Ok(<<>>)]

\* variant: an addx takes effect in the step that fetches it
fetch_at_once(m) ==
    LET inst == m.instructions[m.ip + 1]
    IN  IF inst.kind = "Nop"
        THEN [m |-> [m EXCEPT !.ip = @ + 1], result |-> Ok(<<>>)]
        ELSE [m |-> [m EXCEPT !.reg_x = @ + inst.val, !.ip = @ + 1], result |-> Ok(<<>>)]

\* step, nothing waiting and an instruction at ip
fetch(m) ==
    LET inst == m.instructions[m.ip + 1]
    IN  IF inst.kind = "Nop"
        THEN [m |-> [m EXCEPT !.ip = @ + 1], result |-> Ok(<<>>)]
        ELSE [m |-> [m EXCEPT !.waiting = Some(<<1, inst>>)], result |-> Ok(<<>>)]

\* variant: the failed step moves ip on
fell_off_skip(m) == [m |-> [m EXCEPT !.ip = @ + 1], result |-> Err("Fell of the program")]

\* step, nothing waiting and instructions.get(ip) is None
fell_off(m) == [m |-> m, result |-> Err("Fell of the program")]

\* McMachine::step
step(m) ==
    IF m.waiting # None THEN tick(m)
    ELSE IF m.ip >= Len(m.instructions) THEN fell_off(m)
    ELSE fetch(m)

Operands == {3, -5}
Instructions == {Nop} \cup {AddX(val) : val \in Operands}
Programs == UNION {[1 .. n -> Instructions] : n \in 0 .. MaxProg}

\* the program of tests::small_exmaple
SmallExample == <<Nop, AddX(3), AddX(-5)>>

InitMc ==
    /\ Day08Off
    /\ OthersOff("mc")
    /\ \E prog \in Programs :
          mc = [m |-> with_instructions(prog), result |-> None, vals |-> <<>>, calls |-> 0]

\* one call of step; vals collects reg_x after every successful step
Step ==
    /\ mc.calls < MaxSteps
    /\ LET r == step(mc.m)
       IN  mc' = [m |-> r.m, result |-> r.result,
                  vals |-> IF r.result.ok THEN Append(mc.vals, r.m.reg_x) ELSE mc.vals,
                  calls |-> mc.calls + 1]
    /\ OthersUnchanged("mc")

NextMc == Step

SpecMc == InitMc /\ [][NextMc]_vars

\* the number of steps an instruction takes
Duration(inst) == IF inst.kind = "Nop" THEN 1 ELSE 2

\* the step in which the k-th instruction completes
RECURSIVE EndOf(_, _)
EndOf(prog, k) == IF k = 0 THEN 0 ELSE EndOf(prog, k - 1) + Duration(prog[k])

\* 1 plus the operands of the addx among the first i instructions that have
\* completed by step n
RECURSIVE RegAfter(_, _, _)
RegAfter(prog, n, i) ==
    IF i = 0 THEN 1
    ELSE RegAfter(prog, n, i - 1)
             + (IF prog[i].kind = "AddX" /\ EndOf(prog, i) <= n THEN prog[i].val ELSE 0)

IsPrefix(s, t) == Len(s) <= Len(t) /\ \A k \in 1 .. Len(s) : s[k] = t[k]

\* C14: a noop completes in one step and an addx in two; reg_x starts at 1
\* and changes by the operand of an addx exactly in the second step of that
\* addx: after n steps reg_x is 1 plus the operands of the addx completed by
\* then, ip counts the completed instructions, and an addx is waiting exactly
\* between its two steps. noop, addx 3, addx -5 gives 1, 1, 4, 4, -1.
C14_Timing ==
    LET prog == mc.m.instructions
        n    == Len(mc.vals)
    IN  /\ n = 0 => mc.m.reg_x = 1
        /\ \A k \in 1 .. n : mc.vals[k] = RegAfter(prog, k, Len(prog))
        /\ mc.m.ip = Cardinality({i \in 1 .. Len(prog) : EndOf(prog, i) <= n})
        /\ mc.m.waiting # None <=>
               \E i \in 1 .. Len(prog) : prog[i].kind = "AddX" /\ EndOf(prog, i) = n + 1
        /\ prog = SmallExample => IsPrefix(mc.vals, <<1, 1, 4, 4, -1>>)

C14_Witness == mc.m.instructions = SmallExample /\ mc.vals = <<1, 1, 4, 4, -1>>

\* C15: a step taken when nothing is waiting and ip is at or past the end
\* of the instructions returns an error and leaves the machine as it was;
\* every other step succeeds.
C15_FellOff ==
    [][mc'.calls = mc.calls + 1 =>
          IF mc.m.waiting = None /\ mc.m.ip >= Len(mc.m.instructions)
          THEN /\ mc'.result = Err("Fell of the program")
               /\ mc'.m.reg_x = mc.m.reg_x
               /\ mc'.m.ip = mc.m.ip
               /\ mc'.m.waiting = mc.m.waiting
          ELSE mc'.result = Ok(<<>>)]_vars

\* the sixth step of the small example has failed
C15_Witness ==
    /\ mc.m.instructions = SmallExample
    /\ mc.calls = 6
    /\ mc.result = Err("Fell of the program")
    /\ mc.m.reg_x = -1

----------------------------------------------------------------------------
(* 2022 day05 (the crane moving crates, src/src/bin/day05.rs)              *)
(* SpecCrane models apply_moves, one move per step.                        *)

Move(amount, from, to) == [amount |-> amount, from |-> from, to |-> to]

\* a Vec of stacks, indexed from 0; a stack is the sequence of its crates,
\* the top one last
StackVec(seq) == [i \in 0 .. Len(seq) - 1 |-> seq[i + 1]]

\* get_both on a slice of length len: the two places, or None for a panic
\* (assert_ne!, split_at_mut past the end, back[0] of an empty back)
get_both(len, a, b) ==
    IF a = b THEN None
    ELSE IF a < b
         THEN IF b > len \/ b = len THEN None ELSE Some(<<a, b>>)
         ELSE IF a > len \/ a = len THEN None ELSE Some(<<a, b>>)

Reverse(seq) == [k \in 1 .. Len(seq) |-> seq[Len(seq) + 1 - k]]

\* variant: the crates always arrive reversed
arriving_reversed(drained, pickup_multiple) == Reverse(drained)

\* from.drain(start..), reversed unless several are picked up at once
arriving(drained, pickup_multiple) ==
    IF pickup_multiple THEN drained ELSE Reverse(drained)

\* the body of `for m in moves`: the stacks after the move, or None for a
\* panic (get_both, or from.len() - m.amount below zero)
apply_move(stacks, m, pickup_multiple) ==
    LET both == get_both(Cardinality(DOMAIN stacks), m.from, m.to)
    IN  IF both = None THEN None
        ELSE LET from == stacks[both.val[1]]
                 to   == stacks[both.val[2]]
             IN  IF Len(from) < m.amount THEN None
                 ELSE LET start   == Len(from) - m.amount
                          drained == SubSeq(from, start + 1, Len(from))
                      IN  Some([stacks EXCEPT
                              ![m.from] = SubSeq(from, 1, start),
                              ![m.to] = to \o arriving(drained, pickup_multiple)])

\* stacks.iter().filter_map(|s| s.last()).collect()
RECURSIVE tops_from(_, _)
tops_from(stacks, i) ==
    IF i \notin DOMAIN stacks THEN <<>>
    ELSE (IF stacks[i] = <<>> THEN <<>> ELSE <<stacks[i][Len(stacks[i])]>>)
             \o tops_from(stacks, i + 1)

tops(stacks) == tops_from(stacks, 0)

\* tests::INPUT: the stacks as parse_stacks builds them, with the empty
\* stack in front, and the moves
CraneStacks == StackVec(<< <<>>, <<"Z", "N">>, <<"M", "C", "D">>, <<"P">> >>)
CraneMoves == <<Move(1, 2, 1), Move(3, 1, 3), Move(2, 2, 1), Move(1, 1, 2)>>

\* the freely chosen moves: between any two of the stacks 0 to 3, and to
\* and from an index past the end
Moves ==
    {Move(amount, from, to) : amount \in 0 .. MaxAmount, from \in 1 .. 3, to \in 0 .. 3}
        \cup {Move(1, 1, 4), Move(1, 4, 1)}

\* the state of apply_moves after stacks.clone(): moves is the list of the
\* input, either the moves of the test or any list of at most MaxMoves
\* moves, of which `moved` are done
InitCrane ==
    /\ Day08Off
    /\ OthersOff("crane")
    /\ \E pickup_multiple \in BOOLEAN, scripted \in BOOLEAN :
          crane = [input |-> CraneStacks, stacks |-> CraneStacks,
                   moves |-> IF scripted THEN CraneMoves ELSE <<>>,
                   scripted |-> scripted, moved |-> 0,
                   pickup_multiple |-> pickup_multiple,
                   before |-> CraneStacks, result |-> <<>>, pc |-> "moving"]

\* one iteration of `for m in moves`
ApplyMove ==
    /\ crane.pc = "moving"
    /\ \E m \in IF crane.scripted
                THEN {crane.moves[k] : k \in {crane.moved + 1} \cap DOMAIN crane.moves}
                ELSE {n \in Moves : crane.moved < MaxMoves} :
          LET after == apply_move(crane.stacks, m, crane.pickup_multiple)
          IN  crane' = [crane EXCEPT
                  !.moves = IF crane.scripted THEN @ ELSE Append(@, m),
                  !.moved = @ + 1,
                  !.before = crane.stacks,
                  !.stacks = IF after = None THEN @ ELSE after.val,
                  !.pc = IF after = None THEN "panic" ELSE "moving"]
    /\ OthersUnchanged("crane")

\* the moves are used up: collect the top crates
CollectTops ==
    /\ crane.pc = "moving"
    /\ crane.moved = Len(crane.moves)
    /\ crane' = [crane EXCEPT !.result = tops(crane.stacks), !.pc = "done"]
    /\ OthersUnchanged("crane")

NextCrane == ApplyMove \/ CollectTops

SpecCrane == InitCrane /\ [][NextCrane]_vars

\* the stack t after the top n crates of f went onto it one at a time
RECURSIVE OneAtATime(_, _, _)
OneAtATime(t, f, n) ==
    IF n = 0 THEN t
    ELSE OneAtATime(Append(t, f[Len(f)]), SubSeq(f, 1, Len(f) - 1), n - 1)

\* a move that can be carried out: two different stacks of the list, and
\* no more crates than the source stack holds
Applicable(stacks, m) ==
    /\ m.from # m.to
    /\ m.from \in DOMAIN stacks
    /\ m.to \in DOMAIN stacks
    /\ m.amount <= Len(stacks[m.from])

NonEmpty(stacks) == {i \in DOMAIN stacks : stacks[i] # <<>>}

\* C16: every move that can be carried out takes the top m.amount crates of
\* stack m.from and puts them on top of stack m.to, reversed (as if moved
\* one at a time) with pickup_multiple = false and in their order with
\* pickup_multiple = true; other moves panic; the result is the top crate of
\* every non-empty stack in index order; the input stacks stay as they were.
C16_ApplyMoves ==
    /\ crane.input = CraneStacks
    /\ crane.moved > 0 =>
          LET m == crane.moves[crane.moved]
              f == crane.before[m.from]
              t == crane.before[m.to]
              top == SubSeq(f, Len(f) - m.amount + 1, Len(f))
          IN  /\ crane.pc = "panic" <=> ~Applicable(crane.before, m)
              /\ crane.pc # "panic" =>
                    /\ crane.stacks[m.from] = SubSeq(f, 1, Len(f) - m.amount)
                    /\ crane.stacks[m.to] =
                           IF crane.pickup_multiple THEN t \o top
                           ELSE OneAtATime(t, f, m.amount)
                    /\ \A i \in DOMAIN crane.stacks \ {m.from, m.to} :
                           crane.stacks[i] = crane.before[i]
    /\ crane.pc = "done" =>
          /\ Len(crane.result) = Cardinality(NonEmpty(crane.stacks))
          /\ \A k \in 1 .. Len(crane.result) :
                \E i \in NonEmpty(crane.stacks) :
                    /\ Cardinality({j \in NonEmpty(crane.stacks) : j < i}) = k - 1
                    /\ crane.result[k] = crane.stacks[i][Len(crane.stacks[i])]
          /\ crane.scripted =>
                crane.result = IF crane.pickup_multiple THEN <<"M", "C", "D">>
                               ELSE <<"C", "M", "Z">>

\* the moves of the test are done one crate at a time, the second of them
\* having moved three crates
C16_Witness ==
    /\ crane.pc = "done"
    /\ crane.scripted
    /\ ~crane.pickup_multiple
    /\ crane.result = <<"C", "M", "Z">>

----------------------------------------------------------------------------
(* 2022 day07 (directory sizes from a command log, src/src/bin/day07.rs)   *)
(* SpecSh models dir_sizes, one line of the log per step, and part1.       *)

CdRoot == [kind |-> "CdRoot"]
CdParent == [kind |-> "CdParent"]
CdDir(dir) == [kind |-> "CdDir", dir |-> dir]
Ls == [kind |-> "Ls"]
DirEntry(dir) == [kind |-> "DirEntry", dir |-> dir]
FileEntry(size, name) == [kind |-> "FileEntry", size |-> size, name |-> name]

IsCmd(line) == line.kind \in {"CdRoot", "CdParent", "CdDir", "Ls"}

\* update_pwd: the new pwd and line state, or the error of cd .. in / (the
\* message is written here without its backquotes)
update_pwd(pwd, cmd) ==
    CASE cmd.kind = "CdRoot" ->
            Ok([pwd |-> <<>>, state |-> "WaitingForLs"])
      [] cmd.kind = "CdParent" ->
            IF pwd = <<>> THEN Err("Did a cd .. in /")
            ELSE Ok([pwd |-> SubSeq(pwd, 1, Len(pwd) - 1), state |-> "WaitingForLs"])
      [] cmd.kind = "CdDir" ->
            Ok([pwd |-> Append(pwd, cmd.dir), state |-> "WaitingForLs"])
      [] cmd.kind = "Ls" ->
            Ok([pwd |-> pwd, state |-> "InLsOutput"])

\* dirs.entry_ref(path).insert(BeenHere::Yep)
insert_yep(dirs, path) ==
    [q \in DOMAIN dirs \cup {path} |-> IF q = path THEN "Yep" ELSE dirs[q]]

\* dirs.entry_ref(path).or_insert(BeenHere::Nope)
or_insert_nope(dirs, path) ==
    IF path \in DOMAIN dirs THEN dirs
    ELSE [q \in DOMAIN dirs \cup {path} |-> IF q = path THEN "Nope" ELSE dirs[q]]

\* *sizes.entry_ref(path).or_insert(0) += size
add_size(sizes, path, size) ==
    [q \in DOMAIN sizes \cup {path} |->
        (IF q \in DOMAIN sizes THEN sizes[q] ELSE 0) + (IF q = path THEN size ELSE 0)]

\* for len in from..=pwd.len(): add the size to the entry of pwd[..len]
RECURSIVE add_sizes(_, _, _, _)
add_sizes(sizes, pwd, from, size) ==
    IF from > Len(pwd) THEN sizes
    ELSE add_sizes(add_size(sizes, SubSeq(pwd, 1, from), size), pwd, from + 1, size)

\* variant: the root's entry is left out
file_entry_below_root(sizes, pwd, size) == add_sizes(sizes, pwd, 1, size)

\* the FileEntry arm of dir_sizes
file_entry(sizes, pwd, size) == add_sizes(sizes, pwd, 0, size)

\* the sum of the values of sizes at the given paths
RECURSIVE sum_values(_, _)
sum_values(sizes, paths) ==
    IF paths = {} THEN 0
    ELSE LET p == CHOOSE q \in paths : TRUE
         IN  sizes[p] + sum_values(sizes, paths \ {p})

\* part1 on the sizes of an accepted log
part1_of(sizes) == sum_values(sizes, {p \in DOMAIN sizes : sizes[p] <= 100000})

NoSizes == [q \in {} |-> 0]

\* the log of tests::example
ShExample ==
    << CdRoot, Ls, DirEntry("a"), FileEntry(14848514, "b.txt"),
       FileEntry(8504156, "c.dat"), DirEntry("d"),
       CdDir("a"), Ls, DirEntry("e"), FileEntry(29116, "f"), FileEntry(2557, "g"),
       FileEntry(62596, "h.lst"),
       CdDir("e"), Ls, FileEntry(584, "i"),
       CdParent, CdParent, CdDir("d"), Ls,
       FileEntry(4060174, "j"), FileEntry(8033020, "d.log"),
       FileEntry(5626152, "d.ext"), FileEntry(7214296, "k") >>

\* the lines of the freely chosen logs: two directory names and two file
\* sizes, 50000 twice being at the limit of part1 and 50000 + 60000 above
Lines ==
    {CdRoot, CdParent, Ls, CdDir("a"), CdDir("b"), DirEntry("a"),
     FileEntry(50000, "f"), FileEntry(60000, "f")}

\* dir_sizes before the first line; g is the input, either the log of the
\* test or any log of at most MaxLog lines, of which `read` are done
InitSh ==
    /\ Day08Off
    /\ OthersOff("sh")
    /\ \E scripted \in BOOLEAN :
          sh = [g |-> IF scripted THEN ShExample ELSE <<>>,
                scripted |-> scripted, read |-> 0,
                pwd |-> <<>>, state |-> "WaitingForLs",
                dirs |-> NoSizes, sizes |-> NoSizes,
                pc |-> "reading", result |-> None, part1 |-> None]

\* one iteration of `for line in g`
ReadLine ==
    /\ sh.pc = "reading"
    /\ \E line \in IF sh.scripted
                   THEN {sh.g[k] : k \in {sh.read + 1} \cap DOMAIN sh.g}
                   ELSE {l \in Lines : sh.read < MaxLog} :
          LET here == [sh EXCEPT
                          !.g = IF sh.scripted THEN @ ELSE Append(@, line),
                          !.read = @ + 1]
          IN  IF IsCmd(line)
              THEN LET r == update_pwd(sh.pwd, line)
                   IN  IF r.ok
                       THEN sh' = [here EXCEPT !.pwd = r.val.pwd, !.state = r.val.state]
                       ELSE sh' = [here EXCEPT !.state = "WaitingForLs",
                                               !.result = r, !.pc = "err"]
              ELSE IF sh.state = "WaitingForLs"
                   THEN sh' = [here EXCEPT
                                  !.result = Err("Ls output where cmd was expected!"),
                                  !.pc = "err"]
                   ELSE IF line.kind = "DirEntry"
                        THEN sh' = [here EXCEPT
                                 !.dirs = or_insert_nope(insert_yep(sh.dirs, sh.pwd),
                                                         Append(sh.pwd, line.dir))]
                        ELSE sh' = [here EXCEPT
                                 !.dirs = insert_yep(sh.dirs, sh.pwd),
                                 !.sizes = file_entry(sh.sizes, sh.pwd, line.size)]
    /\ OthersUnchanged("sh")

\* the log is used up: "Missed a dir" or Ok(sizes), and part1 on the sizes
EndOfLog ==
    /\ sh.pc = "reading"
    /\ sh.read = Len(sh.g)
    /\ IF \E p \in DOMAIN sh.dirs : sh.dirs[p] = "Nope"
       THEN sh' = [sh EXCEPT !.result = Err("Missed a dir"), !.pc = "err"]
       ELSE sh' = [sh EXCEPT !.result = Ok(sh.sizes),
                             !.part1 = Some(part1_of(sh.sizes)), !.pc = "ok"]
    /\ OthersUnchanged("sh")

NextSh == ReadLine \/ EndOfLog

SpecSh == InitSh /\ [][NextSh]_vars

\* the directory the k-th line of the log is read in
RECURSIVE PwdAfter(_, _)
PwdAfter(log, k) ==
    IF k = 0 THEN <<>>
    ELSE CASE log[k].kind = "CdRoot" -> <<>>
           [] log[k].kind = "CdParent" ->
                  SubSeq(PwdAfter(log, k - 1), 1, Len(PwdAfter(log, k - 1)) - 1)
           [] log[k].kind = "CdDir" -> Append(PwdAfter(log, k - 1), log[k].dir)
           [] OTHER -> PwdAfter(log, k - 1)

\* the file entries of the log listed in path or below it
ListedUnder(log, path) ==
    {k \in 1 .. Len(log) :
        /\ log[k].kind = "FileEntry"
        /\ IsPrefix(path, PwdAfter(log, k))}

RECURSIVE SumOfEntries(_, _)
SumOfEntries(log, ks) ==
    IF ks = {} THEN 0
    ELSE LET k == CHOOSE j \in ks : TRUE
         IN  log[k].size + SumOfEntries(log, ks \ {k})

\* the directories the log names: every prefix of a directory a line is read in
PathsOf(log) ==
    UNION {{SubSeq(PwdAfter(log, k), 1, n) : n \in 0 .. Len(PwdAfter(log, k))} :
               k \in 1 .. Len(log)}

RECURSIVE SumSmall(_, _)
SumSmall(log, paths) ==
    IF paths = {} THEN 0
    ELSE LET p == CHOOSE q \in paths : TRUE
             size == SumOfEntries(log, ListedUnder(log, p))
         IN  (IF size <= 100000 THEN size ELSE 0) + SumSmall(log, paths \ {p})

\* C17: for every accepted log the size recorded for a path is the sum of
\* the sizes of the file entries listed in that directory or below it, the
\* root being the empty path; a path has a record exactly if such an entry
\* exists; part1 is the sum of the recorded sizes that are <= 100000, which
\* is 95437 for the log of the test.
C17_DirSizes ==
    sh.pc = "ok" =>
        /\ \A path \in DOMAIN sh.sizes :
              sh.sizes[path] = SumOfEntries(sh.g, ListedUnder(sh.g, path))
        /\ DOMAIN sh.sizes = {path \in PathsOf(sh.g) : ListedUnder(sh.g, path) # {}}
        /\ sh.part1 = Some(SumSmall(sh.g, PathsOf(sh.g)))
        /\ sh.g = ShExample => sh.part1 = Some(95437)

\* an accepted log with a file in the root and a file in a directory below
\* it: the root's size counts both and is above 100000, so part1 is the
\* directory's size alone
C17_Witness ==
    /\ sh.pc = "ok"
    /\ <<>> \in DOMAIN sh.sizes
    /\ <<"a">> \in DOMAIN sh.sizes
    /\ sh.sizes[<<>>] = 110000
    /\ sh.sizes[<<"a">>] = 50000
    /\ sh.part1 = Some(50000)

----------------------------------------------------------------------------
(* 2022 day06 (the start-of-packet marker, src/src/bin/day06.rs)           *)
(* SpecTuner models pos_after_n_uniq, one window per step.                 *)

\* variant: only neighbouring bytes are compared
is_uniq_neighbours(bytes) ==
    \A idx \in 1 .. Len(bytes) - 1 : bytes[idx] # bytes[idx + 1]

\* is_uniq: every byte differs from every later one
is_uniq(bytes) ==
    \A idx \in 1 .. Len(bytes) : \A later \in idx + 1 .. Len(bytes) :
        bytes[idx] # bytes[later]

\* the window of g.windows(n) at position pos (counted from 0)
window(g, n, pos) == SubSeq(g, pos + 1, pos + n)

\* two buffers of tests::example_1 and tests::example_2
TunerBvw ==
    << "b", "v", "w", "b", "j", "p", "l", "b", "g", "v", "b", "h",
       "s", "r", "l", "p", "g", "d", "m", "j", "q", "w", "f", "t",
       "v", "n", "c", "z" >>
TunerMjq ==
    << "m", "j", "q", "j", "p", "q", "m", "g", "b", "l", "j", "s",
       "p", "h", "d", "z", "t", "n", "v", "j", "f", "q", "w", "r",
       "c", "g", "s", "m", "l", "b" >>

\* the buffers and window sizes of the tests taken over
TunerExamples ==
    {[g |-> TunerBvw, n |-> 4], [g |-> TunerBvw, n |-> 14], [g |-> TunerMjq, n |-> 14]}

Buffers == UNION {[1 .. len -> 0 .. MaxByte] : len \in 0 .. MaxLen}

InitTuner ==
    /\ Day08Off
    /\ OthersOff("tuner")
    /\ \E in \in TunerExamples \cup {[g |-> g, n |-> n] : g \in Buffers, n \in 0 .. MaxWindow} :
          tuner = [g |-> in.g, n |-> in.n, pos |-> 0, result |-> None, pc |-> "start"]

\* g.windows(n), which panics for n = 0
Windows ==
    /\ tuner.pc = "start"
    /\ tuner' = [tuner EXCEPT !.pc = IF tuner.n = 0 THEN "panic" ELSE "scanning"]
    /\ OthersUnchanged("tuner")

\* position(is_uniq) on the next window, and map(|pos| pos + n)
CheckWindow ==
    /\ tuner.pc = "scanning"
    /\ tuner.pos + tuner.n <= Len(tuner.g)
    /\ IF is_uniq(window(tuner.g, tuner.n, tuner.pos))
       THEN tuner' = [tuner EXCEPT !.result = Ok(tuner.pos + tuner.n), !.pc = "done"]
       ELSE tuner' = [tuner EXCEPT !.pos = @ + 1]
    /\ OthersUnchanged("tuner")

\* no window is left: context("No unique sequence found")
NoWindowLeft ==
    /\ tuner.pc = "scanning"
    /\ tuner.pos + tuner.n > Len(tuner.g)
    /\ tuner' = [tuner EXCEPT !.result = Err("No unique sequence found"), !.pc = "done"]
    /\ OthersUnchanged("tuner")

NextTuner == Windows \/ CheckWindow \/ NoWindowLeft

SpecTuner == InitTuner /\ [][NextTuner]_vars

\* the n bytes g[p-n..p] are pairwise distinct
DistinctBefore(g, n, p) == Cardinality({g[k] : k \in p - n + 1 .. p}) = n

\* the positions that end a window of n pairwise distinct bytes
Markers(g, n) == {p \in n .. Len(g) : DistinctBefore(g, n, p)}

\* C18: pos_after_n_uniq(g, n), n >= 1, returns the smallest p with
\* n <= p <= len(g) such that the n bytes g[p-n..p] are pairwise distinct,
\* and an error when no window of n consecutive bytes is pairwise distinct;
\* the buffers of the tests give 5, 23 and 19.
C18_FirstMarker ==
    /\ tuner.pc = "done" =>
          /\ tuner.n >= 1
          /\ IF Markers(tuner.g, tuner.n) = {}
             THEN tuner.result = Err("No unique sequence found")
             ELSE /\ tuner.result.ok
                  /\ tuner.result.val \in Markers(tuner.g, tuner.n)
                  /\ \A p \in Markers(tuner.g, tuner.n) : tuner.result.val <= p
          /\ (tuner.g = TunerBvw /\ tuner.n = 4) => tuner.result = Ok(5)
          /\ (tuner.g = TunerBvw /\ tuner.n = 14) => tuner.result = Ok(23)
          /\ (tuner.g = TunerMjq /\ tuner.n = 14) => tuner.result = Ok(19)
    /\ tuner.pc = "panic" <=> (tuner.pc # "start" /\ tuner.n = 0)

\* the first window of three distinct bytes is the third one, its first and
\* last byte being equal in the windows before
C18_Witness ==
    /\ tuner.pc = "done"
    /\ tuner.g = <<0, 1, 0, 1, 2>>
    /\ tuner.n = 3
    /\ tuner.result = Ok(5)

----------------------------------------------------------------------------
(* 2023 day05 (the almanac's range maps, src/2023/src/bin/day05.rs)        *)
(* SpecAlmanac models Map::from_str on the range lines of one map and      *)
(* Map::map on one source number.                                          *)

\* a range line "dst_start src_start len" as Range::from_str reads it
Range(dst_start, src_start, len) ==
    [src_start |-> src_start, dst_start |-> dst_start, len |-> len]

\* Range::try_map
try_map(r, src) ==
    IF src < r.src_start THEN None
    ELSE LET offset == src - r.src_start
         IN  IF offset >= r.len THEN None ELSE Some(r.dst_start + offset)

\* sort_by_key(|r| r.src_start), a stable sort: each range goes behind the
\* ranges before it whose key is not larger
RECURSIVE sort_by_src_start(_)
sort_by_src_start(ranges) ==
    IF ranges = <<>> THEN <<>>
    ELSE LET last   == ranges[Len(ranges)]
             front  == sort_by_src_start(SubSeq(ranges, 1, Len(ranges) - 1))
             before == Cardinality({k \in 1 .. Len(front) : front[k].src_start <= last.src_start})
         IN  SubSeq(front, 1, before) \o <<last>> \o SubSeq(front, before + 1, Len(front))

\* the results binary_search_by_key(&src, |r| r.src_start) may give: Ok of
\* the index (from 0) of any range with that key, else Err of the index
\* where the key would be inserted
binary_search_by_key(range_map, src) ==
    LET found == {k \in 1 .. Len(range_map) : range_map[k].src_start = src}
    IN  IF found # {} THEN {Ok(k - 1) : k \in found}
        ELSE {Err(Cardinality({k \in 1 .. Len(range_map) : range_map[k].src_start < src}))}

\* Map::map with the given result of the search: Some of the mapped number,
\* or None for the panic of range_map[idx] past the end
map_at(range_map, src, search) ==
    LET idx == IF search.ok THEN search.val ELSE saturating_sub(search.err, 1)
    IN  IF idx >= Len(range_map) THEN None
        ELSE LET mapped == try_map(range_map[idx + 1], src)
             IN  Some(IF mapped = None THEN src ELSE mapped.val)

\* the range lines of the first map of tests::EXAMPLE and the numbers the
\* test maps with it
SeedToSoil == <<Range(50, 98, 2), Range(52, 50, 48)>>
SeedsOfTest == {79, 14, 55, 13}

DstStarts == {10, 20}
Ranges ==
    {Range(d, s, l) : d \in DstStarts, s \in 0 .. MaxStart, l \in 0 .. MaxRangeLen}
RangeLists == UNION {[1 .. n -> Ranges] : n \in 0 .. MaxRanges}

InitAlmanac ==
    /\ Day08Off
    /\ OthersOff("almanac")
    /\ \E in \in {[lines |-> SeedToSoil, src |-> src] : src \in SeedsOfTest}
                 \cup {[lines |-> rs, src |-> src] :
                          rs \in RangeLists, src \in 0 .. MaxStart + MaxRangeLen} :
          almanac = [lines |-> in.lines, range_map |-> <<>>, src |-> in.src,
                     result |-> None, pc |-> "parsing"]

\* Map::from_str: the ranges of the lines, sorted
FromStr ==
    /\ almanac.pc = "parsing"
    /\ almanac' = [almanac EXCEPT !.range_map = sort_by_src_start(almanac.lines),
                                  !.pc = "parsed"]
    /\ OthersUnchanged("almanac")

\* Map::map(src)
MapSrc ==
    /\ almanac.pc = "parsed"
    /\ \E search \in binary_search_by_key(almanac.range_map, almanac.src) :
          LET r == map_at(almanac.range_map, almanac.src, search)
          IN  almanac' = [almanac EXCEPT !.result = r,
                                         !.pc = IF r = None THEN "panic" ELSE "mapped"]
    /\ OthersUnchanged("almanac")

NextAlmanac == FromStr \/ MapSrc

SpecAlmanac == InitAlmanac /\ [][NextAlmanac]_vars

\* the numbers a range covers
Covered(r) == {n \in 0 .. r.src_start + r.len : r.src_start <= n /\ n < r.src_start + r.len}

NonOverlapping(ranges) ==
    \A i \in 1 .. Len(ranges) : \A j \in 1 .. Len(ranges) :
        i # j => Covered(ranges[i]) \cap Covered(ranges[j]) = {}

Containing(ranges, src) == {k \in 1 .. Len(ranges) : src \in Covered(ranges[k])}

\* what the claim says map returns
Claimed(ranges, src) ==
    IF Containing(ranges, src) = {} THEN {Some(src)}
    ELSE {Some(ranges[k].dst_start + (src - ranges[k].src_start)) : k \in Containing(ranges, src)}

MapCalled == almanac.pc \in {"mapped", "panic"}

\* C19: when the ranges of the map do not overlap, map(src) returns
\* dst_start + (src - src_start) of the range containing src, and src itself
\* when no range contains it.
C19_MapsByContainingRange ==
    (MapCalled /\ NonOverlapping(almanac.lines)) =>
        almanac.result \in Claimed(almanac.lines, almanac.src)

\* what holds instead: the claim for maps of at least one range, none of
\* them of length 0, and the panic for every map without ranges
MapOfNonEmptyRanges ==
    MapCalled =>
        /\ almanac.pc = "panic" <=> almanac.lines = <<>>
        /\ (/\ almanac.lines # <<>>
            /\ NonOverlapping(almanac.lines)
            /\ \A k \in 1 .. Len(almanac.lines) : almanac.lines[k].len > 0)
           => almanac.result \in Claimed(almanac.lines, almanac.src)
        /\ almanac.lines = SeedToSoil =>
              almanac.result = Some(CASE almanac.src = 79 -> 81
                                      [] almanac.src = 14 -> 14
                                      [] almanac.src = 55 -> 57
                                      [] almanac.src = 13 -> 13)

----------------------------------------------------------------------------
(* 2023 day06 (the boat races, src/2023/src/bin/day06.rs)                  *)
(* SpecRace models Race::num_holds: min_hold, max_hold and the count.      *)

Race(time, record) == [time |-> time, dist |-> record]

\* `for t in 0..remain { dist += hold }` from dist = 0
RECURSIVE travelled(_, _)
travelled(hold, remain) ==
    IF remain = 0 THEN 0 ELSE travelled(hold, remain - 1) + hold

\* variant: equalling the record counts as winning
beats_or_ties(r, hold) == travelled(hold, r.time - hold) >= r.dist

\* the test `dist > self.dist` of both loops
beats(r, hold) == travelled(hold, r.time - hold) > r.dist

\* min_hold: `for hold in 0..=self.time`, from the given hold on
RECURSIVE min_hold_from(_, _)
min_hold_from(r, hold) ==
    IF hold > r.time THEN None
    ELSE IF beats(r, hold) THEN Some(hold)
    ELSE min_hold_from(r, hold + 1)

min_hold(r) == min_hold_from(r, 0)

\* max_hold: `for hold in (0..=self.time).rev()`, from the given hold down
RECURSIVE max_hold_from(_, _)
max_hold_from(r, hold) ==
    IF hold < 0 THEN None
    ELSE IF beats(r, hold) THEN Some(hold)
    ELSE max_hold_from(r, hold - 1)

max_hold(r) == max_hold_from(r, r.time)

\* (a..=b).count()
count_inclusive(a, b) == IF a > b THEN 0 ELSE b - a + 1

\* the races of tests::p1
RacesOfTest == {Race(7, 9), Race(15, 40), Race(30, 200)}

InitRace ==
    /\ Day08Off
    /\ OthersOff("race")
    /\ \E r \in RacesOfTest \cup {Race(t, d) : t \in 0 .. MaxTime, d \in 0 .. MaxDist} :
          race = [r |-> r, a |-> None, b |-> None, num |-> None, pc |-> "min_hold"]

\* let a = self.min_hold().unwrap()
MinHold ==
    /\ race.pc = "min_hold"
    /\ LET a == min_hold(race.r)
       IN  race' = [race EXCEPT !.a = a, !.pc = IF a = None THEN "panic" ELSE "max_hold"]
    /\ OthersUnchanged("race")

\* let b = self.max_hold().unwrap()
MaxHold ==
    /\ race.pc = "max_hold"
    /\ LET b == max_hold(race.r)
       IN  race' = [race EXCEPT !.b = b, !.pc = IF b = None THEN "panic" ELSE "count"]
    /\ OthersUnchanged("race")

\* (a..=b).count() as u64
CountHolds ==
    /\ race.pc = "count"
    /\ race' = [race EXCEPT !.num = Some(count_inclusive(race.a.val, race.b.val)),
                            !.pc = "counted"]
    /\ OthersUnchanged("race")

NextRace == MinHold \/ MaxHold \/ CountHolds

SpecRace == InitRace /\ [][NextRace]_vars

\* the hold times that beat the record
Winning(r) == {h \in 0 .. r.time : h * (r.time - h) > r.dist}

\* C20: for every race with at least one winning hold time, num_holds is
\* the number of hold times h in 0..=time with h * (time - h) > dist, and
\* every h from min_hold to max_hold wins; a race without a winning hold
\* time panics in num_holds; the races of the test give 4, 8 and 9.
C20_NumHolds ==
    /\ race.pc = "counted" =>
          /\ Winning(race.r) # {}
          /\ race.num = Some(Cardinality(Winning(race.r)))
          /\ \A h \in race.a.val .. race.b.val : h \in Winning(race.r)
          /\ \A h \in Winning(race.r) : race.a.val <= h /\ h <= race.b.val
          /\ race.r = Race(7, 9) => race.a = Some(2) /\ race.b = Some(5) /\ race.num = Some(4)
          /\ race.r = Race(15, 40) => race.num = Some(8)
          /\ race.r = Race(30, 200) => race.num = Some(9)
    /\ race.pc = "panic" => Winning(race.r) = {}
    /\ (race.pc # "min_hold" /\ Winning(race.r) = {}) => race.pc = "panic"

\* a race whose record is equalled by the holds next to the winning ones:
\* time 8, record 12, holds 2 and 6 travel 12, holds 3 to 5 win
C20_Witness ==
    /\ race.pc = "counted"
    /\ race.r = Race(8, 12)
    /\ race.a = Some(3)
    /\ race.b = Some(5)
    /\ race.num = Some(3)

----------------------------------------------------------------------------
(* 2022 day08, the parallel loops (src/2022/src/bin/day08.rs)              *)
(* SpecPar runs part1 and part2 on an array with every element task of the *)
(* three par_azip! loops as a sequence of steps of its own: a task of the  *)
(* sweep writes *s, then *m; a task of the merge writes *a; a task of the  *)
(* score loop multiplies *s four times.  The tasks of one loop interleave  *)
(* freely; the loop ends when all of them have ended.                      *)

\* the order of the four sweeps in part1, and of the four factors in part2
DirOrder == <<"Up", "Down", "Left", "Right">>

\* the view part1 hands to seeable_from_up for a direction
view_of(m, dir) ==
    CASE dir = "Up"    -> m
      [] dir = "Down"  -> invert_axis0(m)
      [] dir = "Left"  -> swap_axes(m)
      [] dir = "Right" -> invert_axis0(swap_axes(m))

\* the result of seeable_from_up turned back as part1 turns it
back_of(a, dir) ==
    CASE dir = "Up"    -> a
      [] dir = "Down"  -> invert_axis0(a)
      [] dir = "Left"  -> swap_axes(a)
      [] dir = "Right" -> swap_axes(invert_axis0(a))

\* variant: every task of a row uses the accumulator of column 0
accumulator_shared(j) == 0

\* the element of max_height the task of column j is zipped with
accumulator(j) == j

\* seeable_from_up is entered for the sweep-th direction; a task is at 0
\* before its first statement
enter_sweep(st, sweep) ==
    LET v == view_of(st.map, DirOrder[sweep])
    IN  [st EXCEPT !.pc = "sweep", !.sweep = sweep, !.row = 0,
                   !.max_height = None,
                   !.sb = from_elem(v.dim, FALSE).at,
                   !.tasks = [j \in 0 .. v.dim[2] - 1 |-> 0]]

\* the shapes of the arrays of this specification; part1 is entered on any
\* array of such a shape
ParShapes == {<<2, 2>>, <<1, 3>>, <<3, 1>>}

InitPar ==
    /\ Day08Off
    /\ OthersOff("par")
    /\ \E d \in ParShapes : \E m \in ArraysOfShape(d) :
          par = enter_sweep([map |-> m, pc |-> "sweep", sweep |-> 1, row |-> 0,
                             max_height |-> None, sb |-> <<>>, tasks |-> <<>>,
                             seen |-> [dir \in Dirs |-> EmptyArray],
                             a |-> <<>>, mtasks |-> <<>>, count |-> 0,
                             score |-> <<>>, stasks |-> <<>>, best |-> None], 1)

\* the view the current sweep works on
View == view_of(par.map, DirOrder[par.sweep])

\* the None arm of seeable_from_up: the first row
FirstRow ==
    /\ par.pc = "sweep"
    /\ par.row < View.dim[1]
    /\ ~par.max_height.some
    /\ par' = [par EXCEPT
           !.max_height = Some([j \in 0 .. View.dim[2] - 1 |-> View.at[<<par.row, j>>]]),
           !.sb = fill_row(par.sb, par.row, TRUE),
           !.row = @ + 1]
    /\ OthersUnchanged("par")

\* the Some arm: the next statement of the task of one column,
\* `*s = h > m` and then `*m = u8::max(*m, *h)`
SweepTask ==
    /\ par.pc = "sweep"
    /\ par.row < View.dim[1]
    /\ par.max_height.some
    /\ \E j \in DOMAIN par.tasks :
          LET h == View.at[<<par.row, j>>]
              m == par.max_height.val[accumulator(j)]
          IN  \/ /\ par.tasks[j] = 0
                 /\ par' = [par EXCEPT !.sb[<<par.row, j>>] = seeable_cell(h, m),
                                       !.tasks[j] = 1]
              \/ /\ par.tasks[j] = 1
                 /\ par' = [par EXCEPT !.max_height.val[accumulator(j)] = u8_max(m, h),
                                       !.tasks[j] = 2]
    /\ OthersUnchanged("par")

\* every task of the row has ended: the loop goes on to the next row
NextRow ==
    /\ par.pc = "sweep"
    /\ par.row < View.dim[1]
    /\ par.max_height.some
    /\ \A j \in DOMAIN par.tasks : par.tasks[j] = 2
    /\ par' = [par EXCEPT !.row = @ + 1, !.tasks = [j \in DOMAIN par.tasks |-> 0]]
    /\ OthersUnchanged("par")

\* seeable_from_up returns; part1 turns the result back and goes on to the
\* next direction, or to the merging par_azip! with a = up
EndSweep ==
    /\ par.pc = "sweep"
    /\ par.row >= View.dim[1]
    /\ LET dir  == DirOrder[par.sweep]
           seen == [par.seen EXCEPT ![dir] = back_of(Array(View.dim, par.sb), dir)]
       IN  IF par.sweep < Len(DirOrder)
           THEN par' = enter_sweep([par EXCEPT !.seen = seen], par.sweep + 1)
           ELSE par' = [par EXCEPT !.seen = seen, !.pc = "merge",
                                   !.a = seen["Up"].at,
                                   !.mtasks = [p \in Indices(par.map.dim) |-> 0]]
    /\ OthersUnchanged("par")

\* the task of one element of the merge: *a |= b | c | d
MergeTask ==
    /\ par.pc = "merge"
    /\ \E p \in DOMAIN par.mtasks :
          /\ par.mtasks[p] = 0
          /\ par' = [par EXCEPT
                 !.a[p] = @ \/ par.seen["Down"].at[p] \/ par.seen["Left"].at[p]
                            \/ par.seen["Right"].at[p],
                 !.mtasks[p] = 1]
    /\ OthersUnchanged("par")

\* every task of the merge has ended: part1 counts and returns, part2 is
\* entered with the score array of ones
CountVisible ==
    /\ par.pc = "merge"
    /\ \A p \in DOMAIN par.mtasks : par.mtasks[p] = 1
    /\ par' = [par EXCEPT !.count = count_true(par.a), !.pc = "score",
                          !.score = from_elem(par.map.dim, 1).at,
                          !.stasks = [p \in Indices(par.map.dim) |-> 0]]
    /\ OthersUnchanged("par")

\* the next of the four statements `*s *= see_trees(heights, (i, j), dir)`
\* of the task of one element
ScoreTask ==
    /\ par.pc = "score"
    /\ \E p \in DOMAIN par.stasks :
          /\ par.stasks[p] < Len(DirOrder)
          /\ par' = [par EXCEPT
                 !.score[p] = @ * see_trees(par.map, p, DirOrder[par.stasks[p] + 1]),
                 !.stasks[p] = @ + 1]
    /\ OthersUnchanged("par")

\* every task of the score loop has ended: score.iter().max()
MaxScore ==
    /\ par.pc = "score"
    /\ \A p \in DOMAIN par.stasks : par.stasks[p] = Len(DirOrder)
    /\ par' = [par EXCEPT !.best = Some(iter_max(par.score)), !.pc = "done"]
    /\ OthersUnchanged("par")

NextPar ==
    \/ FirstRow \/ SweepTask \/ NextRow \/ EndSweep
    \/ MergeTask \/ CountVisible \/ ScoreTask \/ MaxScore

SpecPar == InitPar /\ [][NextPar]_vars

\* whatever the order of the tasks was, the loops that have ended have
\* produced what part1 and part2 produce as functions of the array
SameAsInOrder ==
    /\ par.pc \in {"merge", "score", "done"} =>
          /\ par.seen["Up"] = sweeps(par.map).up
          /\ par.seen["Down"] = sweeps(par.map).down
          /\ par.seen["Left"] = sweeps(par.map).left
          /\ par.seen["Right"] = sweeps(par.map).right
    /\ par.pc \in {"score", "done"} =>
          /\ par.a = merged(sweeps(par.map))
          /\ par.count = part1(par.map)
    /\ par.pc = "done" =>
          /\ par.score = scores(distances(par.map))
          /\ par.best = Some(part2(par.map))

\* a step of a task changes no element but those of its own index, and no
\* step changes the array of heights
OwnElementOnly ==
    /\ par'.map = par.map
    /\ (/\ par.pc = "sweep" /\ par'.pc = "sweep"
        /\ par'.sweep = par.sweep /\ par'.row = par.row
        /\ par.max_height.some)
       => /\ \A p \in DOMAIN par.sb :
                par'.sb[p] # par.sb[p] =>
                    p[1] = par.row /\ par'.tasks[p[2]] # par.tasks[p[2]]
          /\ \A j \in DOMAIN par.tasks :
                par'.max_height.val[j] # par.max_height.val[j] =>
                    par'.tasks[j] # par.tasks[j]
    /\ (par.pc = "merge" /\ par'.pc = "merge")
       => \A p \in DOMAIN par.a : par'.a[p] # par.a[p] => par'.mtasks[p] # par.mtasks[p]
    /\ (par.pc = "score" /\ par'.pc = "score")
       => \A p \in DOMAIN par.score :
              par'.score[p] # par.score[p] => par'.stasks[p] # par.stasks[p]

\* C22: every task of the sweeps (one accumulator and one output element
\* per column of a row), of the merge and of the score loop writes only its
\* own elements and never the array of heights, and for every order and
\* interleaving of the tasks the sweeps, the count of visible cells and the
\* maximal score are those of the computation in order, so that computing
\* them again on the same array gives the same results.
C22_NoInterference == []SameAsInOrder /\ [][OwnElementOnly]_vars

\* the score loop on a 2x2 array with its tasks out of index order: the
\* last element done, the first not started, the others in between
C22_Witness ==
    /\ par.pc = "score"
    /\ par.map.dim = <<2, 2>>
    /\ par.stasks[<<1, 1>>] = 4
    /\ par.stasks[<<0, 0>>] = 0
    /\ par.stasks[<<0, 1>>] = 2
    /\ par.stasks[<<1, 0>>] = 1

====
